---- MODULE Spec2Model ----
(***************************************************************************)
(* Model of src/app.py: a Streamlit calculator.  One script run handles at *)
(* most one button (Clear history, Copy last result, Calculate), then      *)
(* renders the History tab from st.session_state.history.                  *)
(*                                                                         *)
(* Python values are records  [kind, sym, n, d, args]:                     *)
(*   kind = "none"   None                                                  *)
(*   kind = "str"    a string, its text in sym                             *)
(*   kind = "int"    an int  n  (d = 1)                                    *)
(*   kind = "float"  a float: sym = "lit" is the number n/d (d > 0, in     *)
(*                   lowest terms); any other sym is the value of the      *)
(*                   math-library function sym applied to args, kept as a  *)
(*                   term (sin, log, pow, ... are not evaluated)           *)
(* Arithmetic (+ - * / abs factorial) is exact on n/d; IEEE rounding is    *)
(* not modelled.  The entry's "time" field (a wall-clock reading no branch *)
(* depends on) and the text produced by format_number are left out.  The   *)
(* messages are the source's, with its non-ASCII signs spelled >= and !=.  *)
(***************************************************************************)
EXTENDS Integers, Sequences, FiniteSets, TLC

VARIABLES
    history,    \* st.session_state.history
    shown,      \* the message the run's button handler displayed
    rendered,   \* the expanders of the History tab, top to bottom
    attempts    \* log of the Calculate presses since the ledger was last
                \* empty (not program state: what the user did)

vars == <<history, shown, rendered, attempts>>

(***************************************************************************)
(* Python values                                                           *)
(***************************************************************************)
None == [kind |-> "none", sym |-> "None", n |-> 0, d |-> 1, args |-> <<>>]

PyStr(s) == [kind |-> "str", sym |-> s, n |-> 0, d |-> 1, args |-> <<>>]

PyInt(i) == [kind |-> "int", sym |-> "lit", n |-> i, d |-> 1, args |-> <<>>]

RECURSIVE Gcd(_, _)
Gcd(a, b) == IF b = 0 THEN a ELSE Gcd(b, a % b)

AbsInt(i) == IF i < 0 THEN -i ELSE i

\* the float n/d, reduced, with a positive denominator
PyFloat(n, d) ==
    LET s == IF d < 0 THEN -1 ELSE 1
        g == Gcd(AbsInt(n), AbsInt(d))
    IN [kind |-> "float", sym |-> "lit", n |-> (s * n) \div g,
        d |-> (s * d) \div g, args |-> <<>>]

\* the float a math-library call returns, as a term
Term(f, a) == [kind |-> "float", sym |-> f, n |-> 0, d |-> 1, args |-> a]

IsInt(v) == v.kind = "int"

\* comparisons of a number n/d with an integer k
Lt(v, k) == v.n < k * v.d
Le(v, k) == v.n <= k * v.d
Eq(v, k) == v.n = k * v.d

\* int op int is an int, anything else a float
Arith(a, b, n, d) ==
    IF IsInt(a) /\ IsInt(b) /\ d = 1 THEN PyInt(n) ELSE PyFloat(n, d)

Plus(a, b) == Arith(a, b, a.n * b.d + b.n * a.d, a.d * b.d)
Minus(a, b) == Arith(a, b, a.n * b.d - b.n * a.d, a.d * b.d)
Times(a, b) == Arith(a, b, a.n * b.n, a.d * b.d)
\* true division always returns a float
TrueDiv(a, b) == PyFloat(a.n * b.d, a.d * b.n)
PyAbs(a) == IF IsInt(a) THEN PyInt(AbsInt(a.n)) ELSE PyFloat(AbsInt(a.n), a.d)

(***************************************************************************)
(* Outcome of evaluating an expression: a value, or a raised exception     *)
(***************************************************************************)
Return(v) == [raised |-> FALSE, value |-> v, msg |-> ""]
Raise(m) == [raised |-> TRUE, value |-> None, msg |-> m]

(***************************************************************************)
(* The math library, as far as the handler uses it.  A call either returns *)
(* a float or raises ValueError("math domain error") or                    *)
(* OverflowError("math range error").                                      *)
(***************************************************************************)
RECURSIVE Log2Floor(_)
\* floor(log2 q) for an integer q >= 1
Log2Floor(q) == IF q < 2 THEN 0 ELSE 1 + Log2Floor(q \div 2)

\* |x|^y exceeds the largest double (2^1024): decided on floor(log2 |x|),
\* which is exact for the operands the model draws.
PowOverflows(x, y) ==
    LET m == AbsInt(x.n)
    IN \/ /\ m > x.d /\ y.n > 0
          /\ y.n * Log2Floor(m \div x.d) >= 1024 * y.d
       \/ /\ m > 0 /\ m < x.d /\ y.n < 0
          /\ (-y.n) * Log2Floor(x.d \div m) >= 1024 * y.d

math_pow(x, y) ==
    IF (x.n = 0 /\ y.n < 0) \/ (x.n < 0 /\ y.d # 1)
    THEN Raise("math domain error")
    ELSE IF PowOverflows(x, y)
    THEN Raise("math range error")
    ELSE Return(Term("pow", <<x, y>>))

\* e^x exceeds the largest double once x > 709.782...
math_exp(x) ==
    IF x.n * 1000 > 709782 * x.d
    THEN Raise("math range error")
    ELSE Return(Term("exp", <<x>>))

RECURSIVE Fact(_)
Fact(k) == IF k = 0 THEN 1 ELSE k * Fact(k - 1)

math_factorial(x) == PyInt(Fact(x.n))

(***************************************************************************)
(* Helpers                                                                 *)
(***************************************************************************)
to_radians(x, angle_mode) ==
    IF angle_mode = "Degrees" THEN Term("radians", <<x>>) ELSE x

from_radians(x, angle_mode) ==
    IF angle_mode = "Degrees" THEN Term("degrees", <<x>>) ELSE x

\* mutant: a failed attempt is not recorded
add_history_unless_error(h, op, inputs, result, error) ==
    IF error # None
    THEN h
    ELSE Append(h, [operation |-> op, inputs |-> inputs,
                    result |-> result, error |-> error])

\* mutant: the new entry is inserted at the front
add_history_prepend(h, op, inputs, result, error) ==
    <<[operation |-> op, inputs |-> inputs,
       result |-> result, error |-> error]>> \o h

add_history(h, op, inputs, result, error) ==
    Append(h, [operation |-> op, inputs |-> inputs,
               result |-> result, error |-> error])

(***************************************************************************)
(* The dispatch of the Calculate handler (the body of its try block, up to *)
(* the call of add_history).  result starts as None and stays None when no *)
(* branch assigns it.                                                      *)
(***************************************************************************)
Groups == {"Basic", "Advanced", "Trigonometry", "Inverse Trig", "Misc"}

ops ==
    [g \in Groups |->
        CASE g = "Basic" -> {"Add", "Subtract", "Multiply", "Divide"}
          [] g = "Advanced" -> {"Power (x^y)", "Square Root", "Exponential (e^x)",
                                "Natural Log (ln)", "Log Base 10",
                                "Log (Custom Base)"}
          [] g = "Trigonometry" -> {"sin", "cos", "tan"}
          [] g = "Inverse Trig" -> {"arcsin", "arccos", "arctan"}
          [] g = "Misc" -> {"Absolute", "Factorial", "Percentage (x of y)"}]

AngleModes == {"Degrees", "Radians"}

Divide(x, y) ==
    IF Eq(y, 0)
    THEN Raise("Division by zero is undefined.")
    ELSE Return(TrueDiv(x, y))

\* mutant: the Multiply branch is never taken
Basic_without_multiply(op, x, y) ==
    CASE op = "Add" -> Return(Plus(x, y))
      [] op = "Subtract" -> Return(Minus(x, y))
      [] op = "Divide" -> Divide(x, y)
      [] OTHER -> Return(None)

Basic(op, x, y) ==
    CASE op = "Add" -> Return(Plus(x, y))
      [] op = "Subtract" -> Return(Minus(x, y))
      [] op = "Multiply" -> Return(Times(x, y))
      [] op = "Divide" -> Divide(x, y)
      [] OTHER -> Return(None)

\* mutant: zero is rejected too
SquareRoot_rejecting_zero(x) ==
    IF Le(x, 0)
    THEN Raise("Square root domain error: x must be >= 0.")
    ELSE Return(Term("sqrt", <<x>>))

SquareRoot(x) ==
    IF Lt(x, 0)
    THEN Raise("Square root domain error: x must be >= 0.")
    ELSE Return(Term("sqrt", <<x>>))

NaturalLog(x) ==
    IF Le(x, 0)
    THEN Raise("Log domain error: x must be > 0.")
    ELSE Return(Term("log", <<x>>))

LogBase10(x) ==
    IF Le(x, 0)
    THEN Raise("Log domain error: x must be > 0.")
    ELSE Return(Term("log10", <<x>>))

LogCustomBase(x, base) ==
    IF Le(x, 0) \/ base = None \/ Le(base, 0) \/ Eq(base, 1)
    THEN Raise("For log_b(x): x>0, b>0, b!=1.")
    ELSE Return(Term("log", <<x, base>>))

Advanced(op, x, y, base) ==
    CASE op = "Power (x^y)" -> math_pow(x, y)
      [] op = "Square Root" -> SquareRoot(x)
      [] op = "Exponential (e^x)" -> math_exp(x)
      [] op = "Natural Log (ln)" -> NaturalLog(x)
      [] op = "Log Base 10" -> LogBase10(x)
      [] op = "Log (Custom Base)" -> LogCustomBase(x, base)
      [] OTHER -> Return(None)

Trigonometry(op, x, angle_mode) ==
    LET r == to_radians(x, angle_mode)
    IN CASE op = "sin" -> Return(Term("sin", <<r>>))
         [] op = "cos" -> Return(Term("cos", <<r>>))
         [] op = "tan" -> Return(Term("tan", <<r>>))
         [] OTHER -> Return(None)

InverseTrig(op, x, angle_mode) ==
    IF op \in {"arcsin", "arccos"} /\ ~(Le(x, 1) /\ ~Lt(x, -1))
    THEN Raise("Domain error: input must be in [-1, 1].")
    ELSE CASE op = "arcsin" ->
                Return(from_radians(Term("asin", <<x>>), angle_mode))
           [] op = "arccos" ->
                Return(from_radians(Term("acos", <<x>>), angle_mode))
           [] op = "arctan" ->
                Return(from_radians(Term("atan", <<x>>), angle_mode))
           [] OTHER -> Return(None)

\* mutant: only the sign is checked, not the type
Factorial_sign_only(x) ==
    IF ~(x.n >= 0)
    THEN Raise("Factorial requires a non-negative integer.")
    ELSE Return(math_factorial(x))

Factorial(x) ==
    IF ~(IsInt(x) /\ x.n >= 0)
    THEN Raise("Factorial requires a non-negative integer.")
    ELSE Return(math_factorial(x))

Misc(op, x, y) ==
    CASE op = "Absolute" -> Return(PyAbs(x))
      [] op = "Factorial" -> Factorial(x)
      [] op = "Percentage (x of y)" ->
            Return(Times(TrueDiv(x, PyFloat(100, 1)), y))
      [] OTHER -> Return(None)

\* mutant: the angle conversion is applied to x in every category
Dispatch_converting_always(group, op, x, y, base, angle_mode) ==
    LET r == to_radians(x, angle_mode)
    IN CASE group = "Basic" -> Basic(op, r, y)
         [] group = "Advanced" -> Advanced(op, r, y, base)
         [] group = "Trigonometry" -> Trigonometry(op, x, angle_mode)
         [] group = "Inverse Trig" -> InverseTrig(op, x, angle_mode)
         [] group = "Misc" -> Misc(op, r, y)
         [] OTHER -> Return(None)

\* lines 149-211: Return(result) when the try block reaches add_history,
\* Raise(str(e)) when it leaves through the except clause
Dispatch(group, op, x, y, base, angle_mode) ==
    CASE group = "Basic" -> Basic(op, x, y)
      [] group = "Advanced" -> Advanced(op, x, y, base)
      [] group = "Trigonometry" -> Trigonometry(op, x, angle_mode)
      [] group = "Inverse Trig" -> InverseTrig(op, x, angle_mode)
      [] group = "Misc" -> Misc(op, x, y)
      [] OTHER -> Return(None)

(***************************************************************************)
(* The input widgets (lines 105-138).  x, y and base start as None; the    *)
(* widgets shown for (group, op) set some of them.  A grid G names the     *)
(* values each widget is given: G.X the first float box, G.Y the second,   *)
(* G.B the base box, G.N the Factorial box.                                *)
(***************************************************************************)
Operands(x, y, base) == [x |-> x, y |-> y, base |-> base]

Widgets(group, op, G) ==
    CASE group = "Basic" ->
            {Operands(x, y, None) : x \in G.X, y \in G.Y}
      [] group = "Advanced" /\ op = "Power (x^y)" ->
            {Operands(x, y, None) : x \in G.X, y \in G.Y}
      [] group = "Advanced" /\ op \in {"Square Root", "Exponential (e^x)",
                                       "Natural Log (ln)", "Log Base 10"} ->
            {Operands(x, None, None) : x \in G.X}
      [] group = "Advanced" /\ op = "Log (Custom Base)" ->
            {Operands(x, None, b) : x \in G.X, b \in G.B}
      [] group \in {"Trigonometry", "Inverse Trig"} ->
            {Operands(x, None, None) : x \in G.X}
      [] group = "Misc" /\ op = "Absolute" ->
            {Operands(x, None, None) : x \in G.X}
      [] group = "Misc" /\ op = "Factorial" ->
            {Operands(x, None, None) : x \in G.N}
      [] group = "Misc" /\ op = "Percentage (x of y)" ->
            {Operands(x, y, None) : x \in G.X, y \in G.Y}
      [] OTHER -> {Operands(None, None, None)}

(***************************************************************************)
(* What one script run shows: the message of the button it handled, and    *)
(* the History tab.                                                        *)
(***************************************************************************)
Message(button, kind, value) ==
    [button |-> button, kind |-> kind, value |-> value]

NoMessage == Message("none", "none", None)

\* truth value of a Python value as tested by  if item.get("error")
Truthy(v) == v # None /\ ~(v.kind = "str" /\ v.sym = "")

Expander(item) ==
    [operation |-> item.operation, inputs |-> item.inputs,
     kind |-> IF Truthy(item.error) THEN "error" ELSE "result",
     value |-> IF Truthy(item.error) THEN item.error ELSE item.result]

\* lines 237-248: one expander per entry, newest first
HistoryTab(h) == [i \in 1..Len(h) |-> Expander(h[Len(h) + 1 - i])]

(***************************************************************************)
(* State after the first script run of a session                          *)
(***************************************************************************)
Init ==
    /\ history = <<>>
    /\ shown = NoMessage
    /\ rendered = <<>>
    /\ attempts = <<>>

(***************************************************************************)
(* Script runs                                                             *)
(***************************************************************************)
\* a run with no button pressed (a widget changed)
Rerun ==
    /\ history' = history
    /\ shown' = NoMessage
    /\ rendered' = HistoryTab(history')
    /\ UNCHANGED attempts

\* mutant: Clear removes only the newest entry
ClearHistory_newest_only ==
    /\ history' = SubSeq(history, 1, Len(history) - 1)
    /\ shown' = Message("clear", "success", PyStr("History cleared."))
    /\ rendered' = HistoryTab(history')
    /\ attempts' = <<>>

\* lines 56-58
ClearHistory ==
    /\ history' = <<>>
    /\ shown' = Message("clear", "success", PyStr("History cleared."))
    /\ rendered' = HistoryTab(history')
    /\ attempts' = <<>>

\* mutant: Copy looks for the newest entry that has a result
RECURSIVE CopyMessage_newest_success(_)
CopyMessage_newest_success(h) ==
    IF h # <<>>
    THEN LET last == h[Len(h)]
         IN IF last.error = None /\ last.result # None
            THEN Message("copy", "code", last.result)
            ELSE IF Len(h) = 1
            THEN Message("copy", "info",
                         PyStr("Last entry has no result to copy."))
            ELSE CopyMessage_newest_success(SubSeq(h, 1, Len(h) - 1))
    ELSE Message("copy", "info", PyStr("No history yet."))

\* lines 59-67: what the Copy button shows for ledger h
CopyMessage(h) ==
    IF h # <<>>
    THEN LET last == h[Len(h)]
         IN IF last.error = None /\ last.result # None
            THEN Message("copy", "code", last.result)
            ELSE Message("copy", "info",
                         PyStr("Last entry has no result to copy."))
    ELSE Message("copy", "info", PyStr("No history yet."))

CopyLastResult ==
    /\ history' = history
    /\ shown' = CopyMessage(history)
    /\ rendered' = HistoryTab(history')
    /\ UNCHANGED attempts

\* lines 145-227
Calculate(group, op, x, y, base, angle_mode) ==
    LET out == Dispatch(group, op, x, y, base, angle_mode)
        inputs == [x |-> x, y |-> y, base |-> base, angle_mode |-> angle_mode]
    IN /\ IF ~out.raised
          THEN /\ history' = add_history(history, <<group, op>>, inputs,
                                         out.value, None)
               /\ shown' = Message("calculate", "success", out.value)
          ELSE /\ history' = add_history(history, <<group, op>>, inputs,
                                         None, PyStr(out.msg))
               /\ shown' = Message("calculate", "error", PyStr(out.msg))
       /\ rendered' = HistoryTab(history')
       /\ attempts' = Append(attempts, [operation |-> <<group, op>>,
                                        inputs |-> inputs])

\* a Calculate run with the selection among pairs and the widgets fed from G,
\* while the ledger holds fewer than cap entries
CalculateFrom(pairs, G, cap) ==
    /\ Len(history) < cap
    /\ \E p \in pairs, angle_mode \in AngleModes :
          \E i \in Widgets(p[1], p[2], G) :
              Calculate(p[1], p[2], i.x, i.y, i.base, angle_mode)

\* the pairs the two select boxes offer (lines 85-99)
TablePairs == {<<g, o>> : g \in Groups, o \in UNION {ops[k] : k \in Groups}}
                 \cap UNION {{<<g, o>> : o \in ops[g]} : g \in Groups}

(***************************************************************************)
(* Spec: a session, with a small grid of operands                          *)
(***************************************************************************)
MaxLen == 2

SessionGrid ==
    [X |-> {PyFloat(-4, 1), PyFloat(1, 2)},
     Y |-> {PyFloat(0, 1)},
     B |-> {PyFloat(2, 1)},
     N |-> {PyInt(3)}]

CalculateRun == CalculateFrom(TablePairs, SessionGrid, MaxLen)

Next == CalculateRun \/ ClearHistory \/ CopyLastResult \/ Rerun

Spec == Init /\ [][Next]_vars

(***************************************************************************)
(* SpecEval: the same Calculate and Clear runs over a wide grid of         *)
(* operands (every boundary of every domain check, and operands large      *)
(* enough to overflow), with a short ledger                                *)
(***************************************************************************)
EvalMaxLen == 1

EvalGrid ==
    [X |-> {PyFloat(-4, 1), PyFloat(-1, 1), PyFloat(0, 1), PyFloat(1, 2),
            PyFloat(1, 1), PyFloat(2, 1), PyFloat(1000, 1)},
     Y |-> {PyFloat(-1, 1), PyFloat(0, 1), PyFloat(1, 2), PyFloat(2, 1),
            PyFloat(1000, 1)},
     B |-> {PyFloat(-1, 1), PyFloat(0, 1), PyFloat(1, 1), PyFloat(2, 1)},
     N |-> {PyInt(0), PyInt(1), PyInt(5)}]

CalculateEval == CalculateFrom(TablePairs, EvalGrid, EvalMaxLen)

NextEval == CalculateEval \/ ClearHistory

SpecEval == Init /\ [][NextEval]_vars

(***************************************************************************)
(* SpecCore: the Calculate handler driven below the widgets: any operation *)
(* name under any category, and a Factorial operand of any numeric type    *)
(* and sign (the select boxes and the Factorial box of the page never      *)
(* supply these)                                                           *)
(***************************************************************************)
CoreMaxLen == 1

CorePairs == {<<g, o>> : g \in Groups, o \in UNION {ops[k] : k \in Groups}}

CoreGrid ==
    [X |-> {PyFloat(-4, 1), PyFloat(1, 2)},
     Y |-> {PyFloat(0, 1), PyFloat(2, 1)},
     B |-> {PyFloat(1, 1), PyFloat(2, 1)},
     N |-> {PyInt(-1), PyInt(0), PyInt(3), PyInt(5), PyFloat(-1, 1),
            PyFloat(3, 1), PyFloat(7, 2)}]

CalculateCore == CalculateFrom(CorePairs, CoreGrid, CoreMaxLen)

NextCore == CalculateCore \/ ClearHistory \/ CopyLastResult

SpecCore == Init /\ [][NextCore]_vars

(***************************************************************************)
(* Claims                                                                  *)
(***************************************************************************)
IsSuccess(e) == e.result # None /\ e.error = None
IsFailure(e) == e.result = None /\ e.error # None

C8_OneVariant ==
    \A i \in 1..Len(history) :
        (history[i].result # None) # (history[i].error # None)

C8_Witness ==
    \E i, j \in 1..Len(history) :
        /\ history[i].result # None
        /\ history[i].error = None
        /\ history[j].error # None
        /\ history[j].result = None

\* C9: a Copy run leaves the ledger unchanged; it exposes a value exactly
\* when the ledger is non-empty and its newest entry is a Success, the value
\* being that entry's result; on an empty ledger it says there is no
\* history.
C9_CopyLast ==
    [][shown'.button = "copy" =>
         /\ history' = history
         /\ shown'.kind = "code" <=>
               (history # <<>> /\ IsSuccess(history[Len(history)]))
         /\ shown'.kind = "code" =>
               shown'.value = history[Len(history)].result
         /\ history = <<>> => shown'.value = PyStr("No history yet.")]_vars

C9_Witness ==
    /\ shown.button = "copy"
    /\ shown.kind = "info"
    /\ Len(history) = 2
    /\ IsSuccess(history[1])
    /\ IsFailure(history[2])

\* C10: two recorded attempts with the same category, operation and operands
\* have the same outcome when they also have the same angle mode, or when
\* the category is Basic, Advanced or Misc, wherever they stand in the
\* ledger.
C10_AngleModeAndDeterminism ==
    \A i, j \in 1..Len(history) :
        LET a == history[i]
            b == history[j]
        IN (/\ a.operation = b.operation
            /\ a.inputs.x = b.inputs.x
            /\ a.inputs.y = b.inputs.y
            /\ a.inputs.base = b.inputs.base
            /\ \/ a.inputs.angle_mode = b.inputs.angle_mode
               \/ a.operation[1] \in {"Basic", "Advanced", "Misc"})
           => (a.result = b.result /\ a.error = b.error)

C10_Witness ==
    /\ Len(history) = 2
    /\ history[1].operation = history[2].operation
    /\ history[1].operation[1] = "Misc"
    /\ history[1].inputs.x = history[2].inputs.x
    /\ history[1].inputs.y = history[2].inputs.y
    /\ history[1].inputs.angle_mode # history[2].inputs.angle_mode
    /\ IsSuccess(history[1])

(***************************************************************************)
(* Claims about the evaluation of one attempt                              *)
(***************************************************************************)
Entries == {history[i] : i \in 1..Len(history)}

DivideMsg == PyStr("Division by zero is undefined.")
SqrtMsg == PyStr("Square root domain error: x must be >= 0.")
LogMsg == PyStr("Log domain error: x must be > 0.")
LogBaseMsg == PyStr("For log_b(x): x>0, b>0, b!=1.")
InverseMsg == PyStr("Domain error: input must be in [-1, 1].")
FactorialMsg == PyStr("Factorial requires a non-negative integer.")

\* the rows of the dispatch table that have a domain precondition on float
\* operands, with the row's message
RowMsg(operation) ==
    CASE operation = <<"Basic", "Divide">> -> DivideMsg
      [] operation = <<"Advanced", "Square Root">> -> SqrtMsg
      [] operation = <<"Advanced", "Natural Log (ln)">> -> LogMsg
      [] operation = <<"Advanced", "Log Base 10">> -> LogMsg
      [] operation = <<"Advanced", "Log (Custom Base)">> -> LogBaseMsg
      [] operation = <<"Inverse Trig", "arcsin">> -> InverseMsg
      [] operation = <<"Inverse Trig", "arccos">> -> InverseMsg
      [] OTHER -> None

\* the operands of entry e violate the precondition of e's row
Violates(e) ==
    LET x == e.inputs.x
        y == e.inputs.y
        b == e.inputs.base
    IN CASE e.operation = <<"Basic", "Divide">> -> y.n = 0
         [] e.operation = <<"Advanced", "Square Root">> -> x.n < 0
         [] e.operation = <<"Advanced", "Natural Log (ln)">> -> x.n <= 0
         [] e.operation = <<"Advanced", "Log Base 10">> -> x.n <= 0
         [] e.operation = <<"Advanced", "Log (Custom Base)">> ->
               ~(x.n > 0 /\ b.n > 0 /\ b.n # b.d)
         [] e.operation = <<"Inverse Trig", "arcsin">> ->
               ~(-x.d <= x.n /\ x.n <= x.d)
         [] e.operation = <<"Inverse Trig", "arccos">> ->
               ~(-x.d <= x.n /\ x.n <= x.d)
         [] OTHER -> FALSE

DomainMsgs == {DivideMsg, SqrtMsg, LogMsg, LogBaseMsg, InverseMsg}

\* C4: in a row with a domain precondition an attempt fails with the row's
\* message and no result exactly when its operands violate the precondition;
\* no other row yields one of these messages; arctan never fails.
C4_DomainChecks ==
    \A e \in Entries :
        /\ RowMsg(e.operation) # None =>
              /\ Violates(e) <=> e.error = RowMsg(e.operation)
              /\ Violates(e) => e.result = None
        /\ e.error \in DomainMsgs => e.error = RowMsg(e.operation)
        /\ e.operation = <<"Inverse Trig", "arctan">> => IsSuccess(e)

C4_Witness ==
    \E e \in Entries :
        /\ e.operation = <<"Advanced", "Log (Custom Base)">>
        /\ e.inputs.x = PyFloat(2, 1)
        /\ e.inputs.base = PyFloat(1, 1)
        /\ e.error = LogBaseMsg
        /\ e.result = None

\* C7 (as claimed): every Failure carries one of the fixed messages of the
\* dispatch table, and the operations without a domain precondition never
\* fail.
FixedMsgs == DomainMsgs \cup {FactorialMsg}

Unconditional ==
    {<<"Basic", "Add">>, <<"Basic", "Subtract">>, <<"Basic", "Multiply">>,
     <<"Advanced", "Power (x^y)">>, <<"Advanced", "Exponential (e^x)">>,
     <<"Trigonometry", "sin">>, <<"Trigonometry", "cos">>,
     <<"Trigonometry", "tan">>, <<"Inverse Trig", "arctan">>,
     <<"Misc", "Absolute">>, <<"Misc", "Percentage (x of y)">>}

C7_OnlyFixedMessages ==
    \A e \in Entries :
        /\ e.error # None => e.error \in FixedMsgs
        /\ e.operation \in Unconditional => IsSuccess(e)

IsFactorial(e) == e.operation = <<"Misc", "Factorial">>

\* x! for the integer values the Factorial box is fed
FactorialOf(k) ==
    CASE k = 0 -> 1 [] k = 1 -> 1 [] k = 2 -> 2 [] k = 3 -> 6
      [] k = 4 -> 24 [] k = 5 -> 120 [] k = 6 -> 720

C6_UnknownPairRejected ==
    /\ \A e \in Entries :
          <<e.operation[1], e.operation[2]>> \notin TablePairs => IsFailure(e)
    /\ (/\ shown.button = "calculate"
        /\ history # <<>>
        /\ history[Len(history)].operation \notin TablePairs)
       => shown.kind = "error"

====
